---- MODULE Spec2Model ----
(***************************************************************************)
(* dwmstatus: the status daemon (dwmstatus-server.cpp) and the datagrams   *)
(* it receives on its named socket.                                        *)
(*                                                                         *)
(* Bytes of text (cells, command output, the status line) are one-         *)
(* character strings; a text is a sequence of them.  Bytes of a datagram   *)
(* are the integers 0..255.                                                *)
(***************************************************************************)
EXTENDS Integers, Sequences, FiniteSets, TLC

(* ------------------------------ bounds -------------------------------- *)

\* datagrams sent to the socket in one run
MaxRequests == 2
\* datagrams the socket holds unread
MaxQueue == 1

\* read_cmd_output() calls in a run that probes the capture
MaxCaptures == 2

(* ------------------------- enums and constants ------------------------ *)

R_TIME == 0
R_LOAD == 1
R_TEMP == 2
R_VOL == 3
R_MIC == 4
R_MEM == 5
R_GOV == 6
R_LANG == 7
R_WTH == 8
R_DATE == 9
R_SIZE == 10

BUFFER_MAX_SIZE == 255
ROOT_BUFFER_MAX_SIZE == R_SIZE * BUFFER_MAX_SIZE

\* sizeof(std::uint32_t): the bytes run() asks read() for
SizeofId == 4
\* A std::uint32_t is the pair <<hi, lo>> of its upper and lower 16 bits,
\* each in 0 .. Half - 1.
Half == 65536

U32(hi, lo) == <<hi, lo>>

\* a std::uint32_t n compared with a small size_t k (k < Half): n >= k
U32GreaterEq(n, k) == n[1] > 0 \/ n[2] >= k

\* a std::uint32_t below Half used as an array index
U32Index(n) == n[2]

Slots == 0 .. (R_SIZE - 1)

Min(a, b) == IF a < b THEN a ELSE b

(* ------------------------------ tables -------------------------------- *)

\* Tables are indexed from 0 like the std::arrays they model.
\* A shell command is named by the program it runs.
shell_updates ==
    [k \in 0 .. 6 |->
        CASE k = 0 -> [type |-> "Shell", command |-> "date +%H:%M:%S", field_buffer |-> R_TIME]
          [] k = 1 -> [type |-> "Shell", command |-> "uptime", field_buffer |-> R_LOAD]
          [] k = 2 -> [type |-> "Shell", command |-> "sensors", field_buffer |-> R_TEMP]
          [] k = 3 -> [type |-> "Shell", command |-> "amixer", field_buffer |-> R_VOL]
          [] k = 4 -> [type |-> "Shell", command |-> "xss-get-mem", field_buffer |-> R_MEM]
          [] k = 5 -> [type |-> "Shell", command |-> "date +%d.%m.%Y", field_buffer |-> R_DATE]
          [] k = 6 -> [type |-> "Shell", command |-> "curl wttr.in", field_buffer |-> R_WTH]]

builtin_updates ==
    [k \in 0 .. 2 |->
        CASE k = 0 -> [type |-> "Builtin", fptr |-> "toggle_lang", field_buffer |-> R_LANG]
          [] k = 1 -> [type |-> "Builtin", fptr |-> "toggle_cpu_gov", field_buffer |-> R_GOV]
          [] k = 2 -> [type |-> "Builtin", fptr |-> "toggle_mic", field_buffer |-> R_MIC]]

\* A compound update instantiated with the volume in place of the memory.
MetaIndexesVol == <<0, 1, 2, 3>>

\* the indexes run_meta_update<shell_updates, 0, 1, 2, 4> is instantiated with
MetaIndexes == <<0, 1, 2, 4>>

meta_updates ==
    [k \in 0 .. 1 |->
        CASE k = 0 -> [type |-> "Meta", fptr |-> "run_meta_update"]
          [] k = 1 -> [type |-> "Meta", fptr |-> "terminator"]]

\* A routing table whose id 1 is the update of the time.
real_time_updates_time ==
    [k \in 0 .. 6 |->
        CASE k = 0 -> meta_updates[1]
          [] k = 1 -> shell_updates[0]
          [] k = 2 -> shell_updates[6]
          [] k = 3 -> builtin_updates[0]
          [] k = 4 -> builtin_updates[1]
          [] k = 5 -> builtin_updates[2]
          [] k = 6 -> meta_updates[0]]

real_time_updates ==
    [k \in 0 .. 6 |->
        CASE k = 0 -> meta_updates[1]
          [] k = 1 -> shell_updates[3]
          [] k = 2 -> shell_updates[6]
          [] k = 3 -> builtin_updates[0]
          [] k = 4 -> builtin_updates[1]
          [] k = 5 -> builtin_updates[2]
          [] k = 6 -> meta_updates[0]]

\* real_time_updates.size()
RouteSize == Cardinality(DOMAIN real_time_updates)

(* ------------------------- the outside world -------------------------- *)

\* The name of a slot, as a stub command "echo NAME" prints it (without the
\* newline).
SlotName(s) ==
    CASE s = R_TIME -> <<"T", "I", "M", "E">>
      [] s = R_LOAD -> <<"L", "O", "A", "D">>
      [] s = R_TEMP -> <<"T", "E", "M", "P">>
      [] s = R_VOL -> <<"V", "O", "L">>
      [] s = R_MIC -> <<"M", "I", "C">>
      [] s = R_MEM -> <<"M", "E", "M">>
      [] s = R_GOV -> <<"G", "O", "V">>
      [] s = R_LANG -> <<"L", "A", "N", "G">>
      [] s = R_WTH -> <<"W", "T", "H">>
      [] s = R_DATE -> <<"D", "A", "T", "E">>

\* What the stubbed command of a shell descriptor writes to its stdout.
StubOutput(cmd) ==
    LET u == CHOOSE v \in {shell_updates[k] : k \in DOMAIN shell_updates} : v.command = cmd
    IN  SlotName(u.field_buffer) \o <<"\n">>

\* Other outputs a command may produce: nothing, and two lines.
OddOutputs == { <<>>, <<"a", "\n", "b", "\n">> }

\* The commands that print something else than their stub in the modelled
\* runs: one that the compound update of id 6 runs again, and one that it
\* does not.
VarCommands == {shell_updates[0].command, shell_updates[3].command}

\* What one run of a command may write to its stdout.
Outputs(c) ==
    IF c \in VarCommands THEN {StubOutput(c)} \cup OddOutputs ELSE {StubOutput(c)}

\* The sets of signals the modelled runs inherit as ignored: none, or
\* SIGHUP (a daemon started under nohup).
InheritedIgnored == { {}, {"SIGHUP"} }

\* The exit statuses a child is modelled to end with.
ExitStatuses == {0, 1}

Signals == {"SIGTERM", "SIGINT", "SIGHUP"}

\* the order init_signals() walks the signals in
SigOrder == <<"SIGTERM", "SIGINT", "SIGHUP">>

(* ----------------------------- datagrams ------------------------------ *)

\* The bytes of a std::uint32_t in memory (host byte order, little endian),
\* as write()/sendto() of &num sends them.
Encode(n) ==
    << n[2] % 256, n[2] \div 256, n[1] % 256, n[1] \div 256 >>

\* The std::uint32_t that read() leaves in `id` when it stored the bytes b
\* (at least SizeofId of them).
Decode(b) ==
    U32((b[3] + 256 * b[4]) % Half, (b[1] + 256 * b[2]) % Half)

\* The ids the modelled clients send.
SentIds == {U32(0, k) : k \in 0 .. 7} \cup {U32(0, 256), U32(Half - 1, Half - 1)}

\* The datagrams the modelled clients send: a full id, a datagram of 0 or 3
\* bytes, and datagrams of 5 and 6 bytes.
Datagrams ==
    {Encode(n) : n \in SentIds}
        \cup { <<>>, SubSeq(Encode(U32(0, 3)), 1, 3) }
        \cup { Encode(U32(0, 3)) \o <<9>>, Encode(U32(0, 7)) \o <<1, 0>> }

(* --------------------------- pure functions --------------------------- *)

\* read_all(): read() until nbytes are stored or the writer closed the pipe;
\* `out` is everything the child writes to the pipe.
ReadAll(out, nbytes) == SubSeq(out, 1, Min(Len(out), nbytes))

\* read_cmd_output(), lines 287-293: the view of the cell after the capture.
\* A capture that keeps the newline at the end of what was read.
CaptureKeepsNewline(out) == ReadAll(out, BUFFER_MAX_SIZE)

Capture(out) ==
    LET b == ReadAll(out, BUFFER_MAX_SIZE)
    IN  IF Len(b) > 0 /\ b[Len(b)] = "\n" THEN SubSeq(b, 1, Len(b) - 1) ELSE b

\* idx = !idx
Flip(ix) == IF ix = 0 THEN 1 ELSE 0

\* ltable / freq_table / mic_status_table
ToggleTable(fptr) ==
    CASE fptr = "toggle_lang" -> << <<"U", "S">>, <<"R", "O">> >>
      [] fptr = "toggle_cpu_gov" -> << <<"*">>, <<"$">> >>
      [] fptr = "toggle_mic" -> << <<"0">>, <<"1">> >>

\* the n of memcpy(field_buffer->data, ..., n); field_buffer->length = n
ToggleLength(fptr) ==
    CASE fptr = "toggle_lang" -> 2
      [] fptr = "toggle_cpu_gov" -> 1
      [] fptr = "toggle_mic" -> 1

\* The view of the cell after a toggler ran and left its index at ix
\* (the tables are indexed from 0 in the source).
ToggleText(fptr, ix) == SubSeq(ToggleTable(fptr)[ix + 1], 1, ToggleLength(fptr))

\* A STATUS_FMT whose separators lost their space.
StatusFmtNoSpace(a) ==
    <<"[">> \o a[1] \o <<"|">> \o a[2] \o <<"|">> \o a[3] \o <<"|">> \o a[4]
            \o <<"|">> \o a[5] \o <<"|">> \o a[6] \o <<"|">> \o a[7] \o <<"|">> \o a[8]
            \o <<"|">> \o a[9] \o <<"|">> \o a[10] \o <<"]">>

\* STATUS_FMT applied to the ten views, in the order of the array.
StatusFmt(a) ==
    <<"[">> \o a[1] \o <<" ", "|">> \o a[2] \o <<" ", "|">> \o a[3]
            \o <<" ", "|">> \o a[4] \o <<" ", "|">> \o a[5] \o <<" ", "|">> \o a[6]
            \o <<" ", "|">> \o a[7] \o <<" ", "|">> \o a[8] \o <<" ", "|">> \o a[9]
            \o <<" ", "|">> \o a[10] \o <<"]">>

\* fmt::format_to(buffer, ...): the whole text, whatever its length.
FormatTo(n, text) == text

\* fmt::format_to_n(buffer, n, ...): the first n bytes of the formatted text.
FormatToN(n, text) == SubSeq(text, 1, Min(Len(text), n))

\* update_screen(): the text handed to the sink, up to the '\0' at res.out.
ScreenText(fb) ==
    FormatToN(ROOT_BUFFER_MAX_SIZE, StatusFmt([k \in 1 .. R_SIZE |-> fb[k - 1]]))

\* read(sock_fd, &id, sizeof(id)) on a datagram of Len(d) bytes: the bytes
\* stored; the rest of the datagram is discarded.
ReadRc(d) == Min(Len(d), SizeofId)

\* run(): `id` after read() stored the first ReadRc(d) bytes of d over it
IdAfterRead(old, d) ==
    Decode(SubSeq(d, 1, ReadRc(d)) \o SubSeq(Encode(old), ReadRc(d) + 1, SizeofId))

\* A check that takes any bytes at all for an id.
FullyArrivedAny(rc) == rc > 0

\* run(): rc == sizeof(id), the id arrived in full
FullyArrived(rc) == rc = SizeofId

\* handle_received(): the bounds check on the id
OutOfBounds(n) == U32GreaterEq(n, RouteSize)

(* ------------------------------- state -------------------------------- *)

VARIABLES
    pc,             \* where the server is: start, init_signals, init_x,
                    \* init_statusbar, run_meta_update, update_screen,
                    \* run_loop, handle_received, exited
    i,              \* the position in the loop of init_signals,
                    \* init_statusbar or run_meta_update
    id,             \* run(): the local `id`; read() stores into it, and it
                    \* is looked at only after read() has filled it
    field_buffers,  \* slot -> the view (data[0 .. length)) of its cell
    idx,            \* toggler -> its static idx
    running,
    sock,           \* "none", "bound" or "closed"
    sigdisp,        \* signal -> "SIG_DFL", "SIG_IGN" or "cleanup_and_exit"
    exit_status,    \* "none" while the process lives, then "success",
                    \* "failure" or "signal" (killed by a signal)
    exit_by,        \* what ended the process: the diagnostic of die(),
                    \* "main", "cleanup_and_exit" or "SIG_DFL"
    failed_call,    \* the system call whose failure ended the process, ""
                    \* if none did
    path_exists,    \* SOCKET_PATH is in the file system
    queue,          \* datagrams waiting in the socket, oldest first
    sent,           \* datagrams sent so far
    published,      \* the text last handed to the publish sink
    pubs,           \* publications since the last datagram was read (since
                    \* the start, before the first)
    log,            \* the updates run since then, in order: what ran, the
                    \* slot it wrote (R_SIZE if none) and the bytes its
                    \* child wrote
    dgram,          \* the datagram last read
    received,       \* datagrams read so far
    child_status,   \* the exit status of the child last reaped
    prev_meta_log,  \* the log of the request before the datagram last read,
                    \* if that request was a compound update that ran to
                    \* its end, else <<>>
    client          \* one run of dwmstatus-client: where it is, its
                    \* arguments, what is bound to SOCKET_NAME, `num`, the
                    \* bytes it wrote and how it ended

\* the variables of the server
server_vars ==
    << pc, i, id, field_buffers, idx, running, sock, sigdisp, exit_status,
       exit_by, failed_call, path_exists, queue, sent, published,
       pubs, log, dgram, received, child_status, prev_meta_log >>

vars == << server_vars, client >>

\* No client runs.
ClientOff ==
    [pc |-> "off", argv |-> <<>>, ulong |-> 0, peer |-> "none", num |-> U32(0, 0),
     written |-> <<>>, status |-> "none", by |-> ""]

Togglers == {builtin_updates[k].fptr : k \in DOMAIN builtin_updates}

\* The server before main() has done anything.
ServerInit ==
    /\ pc = "start"
    /\ i = 0
    /\ id = U32(0, 0)
    /\ field_buffers = [s \in Slots |-> <<>>]
    /\ idx = [t \in Togglers |-> 1]
    /\ running = TRUE
    /\ sock = "none"
    /\ \E ign \in InheritedIgnored :
          /\ sigdisp = [s \in Signals |-> IF s \in ign THEN "SIG_IGN" ELSE "SIG_DFL"]
    /\ exit_status = "none"
    /\ exit_by = "none"
    /\ failed_call = ""
    /\ path_exists = FALSE
    /\ queue = <<>>
    /\ sent = 0
    /\ published = <<>>
    /\ pubs = 0
    /\ log = <<>>
    /\ dgram = <<>>
    /\ received = 0
    /\ child_status = 0
    /\ prev_meta_log = <<>>

Init == ServerInit /\ client = ClientOff

(* ------------------------------ helpers ------------------------------- *)

\* The process ends: its memory (the cells, the toggler indexes, the locals,
\* the signal dispositions) is gone, and the kernel closes the socket and
\* drops what it holds.  The socket path stays unless it was unlinked.
ProcessEnds(status, by) ==
    /\ pc' = "exited"
    /\ exit_status' = status
    /\ exit_by' = by
    /\ i' = 0
    /\ id' = U32(0, 0)
    /\ field_buffers' = [s \in Slots |-> <<>>]
    /\ idx' = [t \in DOMAIN idx |-> 1]
    /\ sigdisp' = [s \in Signals |-> "SIG_DFL"]
    /\ child_status' = 0
    /\ sock' = IF sock = "none" THEN "none" ELSE "closed"
    /\ queue' = <<>>

\* exit(EXIT_FAILURE) after a diagnostic, perror_exit() and init_x(),
\* because the system call `call` failed
Die(why, call) ==
    /\ ProcessEnds("failure", why)
    /\ failed_call' = call

\* What can happen to the system calls of one read_cmd_output(): all
\* succeed, or the named one fails.
ShellOutcomes == {"ok", "pipe", "fork", "close", "read", "close_read_end", "wait"}

\* The children one read_cmd_output() of command c can get: what the child
\* wrote to the pipe and the status it ended with.
Children(c) == {[out |-> o, status |-> st] : o \in Outputs(c), st \in ExitStatuses}

\* A read_cmd_output() that reports a child's non-zero exit status as a
\* failure.
ReadCmdOutputRcStatus(outcome, status) ==
    IF outcome \in {"close_read_end", "wait"} \/ status # 0 THEN -1 ELSE 0

\* read_cmd_output(): its return value, given the outcome of its system
\* calls and the exit status of the child (wait(nullptr) drops the status).
ReadCmdOutputRc(outcome, status) ==
    IF outcome \in {"close_read_end", "wait"} THEN -1 ELSE 0

\* read_cmd_output() and run_update(): the diagnostic of the die() the
\* update ends in, "" if none; rc is what read_cmd_output() returns.
DiesWith(outcome, rc) ==
    CASE outcome \in {"pipe", "fork", "close", "read"} -> outcome
      [] rc < 0 -> "read_cmd_output"
      [] OTHER -> ""

\* run_update() of a Shell descriptor, then on to (npc, ni).
RunShell(u, npc, ni) ==
    \E outcome \in ShellOutcomes : \E ch \in Children(u.command) :
        LET rc == ReadCmdOutputRc(outcome, ch.status)
            why == DiesWith(outcome, rc)
        IN  IF why = ""
            THEN /\ field_buffers' =
                       [field_buffers EXCEPT ![u.field_buffer] = Capture(ch.out)]
                 /\ child_status' = ch.status
                 /\ log' = Append(log, [what |-> u.command, slot |-> u.field_buffer, out |-> ch.out])
                 /\ pc' = npc
                 /\ i' = ni
                 /\ UNCHANGED << idx, running, id, sock, sigdisp, queue, exit_status,
                                 exit_by, failed_call >>
            ELSE /\ Die(why, IF outcome = "ok" THEN "" ELSE outcome)
                 /\ UNCHANGED <<log, running>>

\* A toggler that adds the label to the view instead of replacing it.
ToggleAppends(fptr, ix, cell) ==
    [idx |-> Flip(ix), cell |-> cell \o ToggleText(fptr, Flip(ix))]

\* toggle_lang(), toggle_cpu_gov(), toggle_mic(): the static idx and the
\* view of the cell after one invocation, from idx = ix and the view `cell`
\* (memcpy and the assignment of length replace the view).
Toggle(fptr, ix, cell) ==
    [idx |-> Flip(ix), cell |-> ToggleText(fptr, Flip(ix))]

\* run_update() of a Builtin descriptor: toggle_lang(), toggle_cpu_gov() or
\* toggle_mic(); the result of std::system() is not looked at.
RunBuiltin(u, npc, ni) ==
    LET t == Toggle(u.fptr, idx[u.fptr], field_buffers[u.field_buffer])
    IN  /\ idx' = [idx EXCEPT ![u.fptr] = t.idx]
        /\ field_buffers' = [field_buffers EXCEPT ![u.field_buffer] = t.cell]
        /\ log' = Append(log, [what |-> u.fptr, slot |-> u.field_buffer, out |-> <<>>])
        /\ pc' = npc
        /\ i' = ni
        /\ UNCHANGED << running, child_status, id, sock, sigdisp, queue, exit_status,
                        exit_by, failed_call >>

\* terminator()
Terminator(npc, ni) ==
    /\ running' = FALSE
    /\ log' = Append(log, [what |-> "terminator", slot |-> R_SIZE, out |-> <<>>])
    /\ pc' = npc
    /\ i' = ni
    /\ UNCHANGED << field_buffers, idx, child_status, id, sock, sigdisp, queue,
                    exit_status, exit_by, failed_call >>

\* run_update() of a descriptor that is not the compound update (that one
\* takes several steps, see RunMetaUpdate).
RunUpdate(u, npc, ni) ==
    \/ /\ u.type = "Shell"
       /\ RunShell(u, npc, ni)
    \/ /\ u.type = "Builtin"
       /\ RunBuiltin(u, npc, ni)
    \/ /\ u.type = "Meta"
       /\ u.fptr = "terminator"
       /\ Terminator(npc, ni)

\* The slots written since the last datagram was read, in order.
LogSlots == [k \in 1 .. Len(log) |-> log[k].slot]

\* The slots the compound update writes, in order.
MetaSlots == [k \in 1 .. Len(MetaIndexes) |-> shell_updates[MetaIndexes[k]].field_buffer]

\* A handle_received() that returns without update_screen().
AfterUpdateReturns == "run_loop"

\* where handle_received() goes after run_update() returned
AfterUpdate == "update_screen"

\* A handle_received() that falls through to update_screen() after the
\* diagnostic.
AfterRejectFallsThrough == "update_screen"

\* where handle_received() goes after an id out of bounds: it returns
AfterReject == "run_loop"

\* A loop that never looks at `running`.
LoopContinuesAlways == TRUE

\* run(): the condition of the while loop
LoopContinues == running

(* ------------------------------ actions ------------------------------- *)

\* get_named_socket()
GetNamedSocket ==
    /\ pc = "start"
    /\ \/ /\ Die("socket", "socket")
          /\ UNCHANGED path_exists
       \/ /\ Die("bind", "bind")
          /\ UNCHANGED path_exists
       \/ /\ sock' = "bound"
          /\ path_exists' = TRUE
          /\ pc' = "init_signals"
          /\ i' = 1
          /\ UNCHANGED << id, field_buffers, idx, sigdisp, queue, child_status,
                          exit_status, exit_by, failed_call >>
    /\ UNCHANGED <<running, sent, published, pubs, log, dgram, received>>
    /\ UNCHANGED <<prev_meta_log, client>>

\* init_signals(): one turn of its loop over SIGTERM, SIGINT, SIGHUP
InitSignals ==
    /\ pc = "init_signals"
    /\ \/ /\ i = 1
          /\ Die("sigemptyset", "sigemptyset")
       \/ Die("sigaction", "sigaction")
       \/ /\ sigdisp' =
                IF sigdisp[SigOrder[i]] # "SIG_IGN"
                THEN [sigdisp EXCEPT ![SigOrder[i]] = "cleanup_and_exit"]
                ELSE sigdisp
          /\ IF i < Len(SigOrder)
             THEN /\ i' = i + 1
                  /\ pc' = "init_signals"
             ELSE /\ i' = 0
                  /\ pc' = "init_x"
          /\ UNCHANGED << id, field_buffers, idx, sock, queue, child_status,
                          exit_status, exit_by, failed_call >>
    /\ UNCHANGED <<running, path_exists, sent, published, pubs, log, dgram, received>>
    /\ UNCHANGED <<prev_meta_log, client>>

\* init_x()
InitX ==
    /\ pc = "init_x"
    /\ \/ Die("XOpenDisplay", "XOpenDisplay")
       \/ /\ pc' = "init_statusbar"
          /\ UNCHANGED << i, id, field_buffers, idx, sock, sigdisp, queue, child_status,
                          exit_status, exit_by, failed_call >>
    /\ UNCHANGED <<running, path_exists, sent, published, pubs, log, dgram, received>>
    /\ UNCHANGED <<prev_meta_log, client>>

\* An init_statusbar() whose two loops are swapped.
StartupUpdateBuiltinFirst(k) ==
    IF k < Cardinality(DOMAIN builtin_updates)
    THEN builtin_updates[k]
    ELSE shell_updates[k - Cardinality(DOMAIN builtin_updates)]

\* The descriptor init_statusbar() runs at position k: the shell updates,
\* then the builtin updates.
StartupUpdate(k) ==
    IF k < Cardinality(DOMAIN shell_updates)
    THEN shell_updates[k]
    ELSE builtin_updates[k - Cardinality(DOMAIN shell_updates)]

StartupCount == Cardinality(DOMAIN shell_updates) + Cardinality(DOMAIN builtin_updates)

\* init_statusbar(): one run_update() of its two loops; update_screen()
\* follows the last.
InitStatusbar ==
    /\ pc = "init_statusbar"
    /\ IF i + 1 < StartupCount
       THEN RunUpdate(StartupUpdate(i), "init_statusbar", i + 1)
       ELSE RunUpdate(StartupUpdate(i), "update_screen", 0)
    /\ UNCHANGED <<path_exists, sent, published, pubs, dgram, received>>
    /\ UNCHANGED <<prev_meta_log, client>>

\* update_screen(), called by init_statusbar() and by handle_received()
UpdateScreen ==
    /\ pc = "update_screen"
    /\ published' = ScreenText(field_buffers)
    /\ pubs' = pubs + 1
    /\ pc' = "run_loop"
    /\ UNCHANGED << i, id, field_buffers, idx, running, sock, sigdisp, exit_status,
                    exit_by, failed_call, path_exists, queue, sent, log, dgram, received,
                    child_status >>
    /\ UNCHANGED <<prev_meta_log, client>>

\* run(): while(running) is true and read() returns a datagram
Read ==
    /\ pc = "run_loop"
    /\ LoopContinues
    /\ queue # <<>>
    /\ LET d == Head(queue)
       IN  /\ queue' = Tail(queue)
           /\ dgram' = d
           /\ id' = IdAfterRead(id, d)
           /\ pc' = IF FullyArrived(ReadRc(d)) THEN "handle_received" ELSE "run_loop"
    /\ received' = received + 1
    /\ pubs' = 0
    /\ log' = <<>>
    /\ UNCHANGED << i, field_buffers, idx, running, sock, sigdisp, exit_status, exit_by, failed_call,
                    path_exists, sent, published, child_status >>
    /\ prev_meta_log' = IF LogSlots = MetaSlots /\ pubs = 1 THEN log ELSE <<>>
    /\ UNCHANGED client

\* run(): read() fails
ReadFails ==
    /\ pc = "run_loop"
    /\ LoopContinues
    /\ path_exists' = FALSE
    /\ Die("run.read", "read")
    /\ UNCHANGED <<running, sent, published, pubs, log, dgram, received>>
    /\ UNCHANGED <<prev_meta_log, client>>

\* run(): while(running) is false; close, unlink, and main() returns
LoopExit ==
    /\ pc = "run_loop"
    /\ ~LoopContinues
    /\ path_exists' = FALSE
    /\ ProcessEnds("success", "main")
    /\ UNCHANGED failed_call
    /\ UNCHANGED <<running, sent, published, pubs, log, dgram, received>>
    /\ UNCHANGED <<prev_meta_log, client>>

\* handle_received(id)
HandleReceived ==
    /\ pc = "handle_received"
    /\ IF OutOfBounds(id)
       THEN /\ pc' = AfterReject
            /\ UNCHANGED << i, id, field_buffers, idx, running, sock, sigdisp, queue,
                            exit_status, exit_by, failed_call, log, child_status >>
       ELSE LET u == real_time_updates[U32Index(id)]
            IN  IF u.type = "Meta" /\ u.fptr = "run_meta_update"
                THEN /\ pc' = "run_meta_update"
                     /\ i' = 1
                     /\ UNCHANGED << id, field_buffers, idx, running, sock, sigdisp,
                                     queue, exit_status, exit_by, failed_call, log,
                                     child_status >>
                ELSE RunUpdate(u, AfterUpdate, 0)
    /\ UNCHANGED <<path_exists, sent, published, pubs, dgram, received>>
    /\ UNCHANGED <<prev_meta_log, client>>

\* run_meta_update<shell_updates, 0, 1, 2, 4>(): one run_update() of the fold
RunMetaUpdate ==
    /\ pc = "run_meta_update"
    /\ IF i < Len(MetaIndexes)
       THEN RunUpdate(shell_updates[MetaIndexes[i]], "run_meta_update", i + 1)
       ELSE RunUpdate(shell_updates[MetaIndexes[i]], AfterUpdate, 0)
    /\ UNCHANGED <<path_exists, sent, published, pubs, dgram, received>>
    /\ UNCHANGED <<prev_meta_log, client>>

\* A signal is delivered to the living process: cleanup_and_exit() if it is
\* installed, the default action (the process is killed) if the disposition
\* is SIG_DFL, nothing if it is SIG_IGN.
Deliver(sig) ==
    /\ exit_status = "none"
    /\ \/ /\ sigdisp[sig] = "cleanup_and_exit"
          /\ path_exists' = FALSE
          /\ ProcessEnds("success", "cleanup_and_exit")
          /\ UNCHANGED failed_call
       \/ /\ sigdisp[sig] = "SIG_DFL"
          /\ ProcessEnds("signal", "SIG_DFL")
          /\ UNCHANGED <<path_exists, failed_call>>
       \/ /\ sigdisp[sig] = "SIG_IGN"
          /\ UNCHANGED << pc, exit_status, exit_by, failed_call, path_exists, i, id, field_buffers,
                          idx, sigdisp, child_status, sock, queue >>
    /\ UNCHANGED <<running, sent, published, pubs, log, dgram, received>>
    /\ UNCHANGED <<prev_meta_log, client>>

\* A datagram arrives at the bound socket.
Arrive(d) ==
    /\ exit_status = "none"
    /\ sock = "bound"
    /\ sent < MaxRequests
    /\ Len(queue) < MaxQueue
    /\ queue' = Append(queue, d)
    /\ sent' = sent + 1
    /\ UNCHANGED << pc, i, id, field_buffers, idx, running, sock, sigdisp, exit_status,
                    exit_by, failed_call, path_exists, published, pubs, log, dgram, received,
                    child_status >>
    /\ UNCHANGED <<prev_meta_log, client>>

Next ==
    \/ GetNamedSocket
    \/ InitSignals
    \/ InitX
    \/ InitStatusbar
    \/ UpdateScreen
    \/ Read
    \/ ReadFails
    \/ LoopExit
    \/ HandleReceived
    \/ RunMetaUpdate
    \/ \E sig \in Signals : Deliver(sig)
    \/ \E d \in Datagrams : Arrive(d)

Spec == Init /\ [][Next]_vars

(* ------------------ update_screen() on any field store ----------------- *)

\* n bytes c
Rep(c, n) == [k \in 1 .. n |-> c]

\* The bytes STATUS_FMT adds to the ten views: the brackets and the nine
\* separators.
FmtOverhead == Len(StatusFmt([k \in 1 .. R_SIZE |-> <<>>]))

\* The length of the last cell with which the text of nine full cells and
\* that cell is ROOT_BUFFER_MAX_SIZE bytes long.
FitLength == ROOT_BUFFER_MAX_SIZE - FmtOverhead - (R_SIZE - 1) * BUFFER_MAX_SIZE

\* The field stores update_screen() is applied to: each of the first nine
\* cells empty or full, the last empty, full, or at the length where the
\* text just fits and one byte above it.
RenderStores ==
    { [s \in Slots |-> IF s = R_SIZE - 1 THEN last
                       ELSE IF s \in full THEN Rep("x", BUFFER_MAX_SIZE) ELSE <<>>] :
        full \in SUBSET (Slots \ {R_SIZE - 1}),
        last \in { <<>>, Rep("y", FitLength), Rep("y", FitLength + 1),
                   Rep("y", BUFFER_MAX_SIZE) } }

\* The server about to call update_screen(), its field store one of
\* `stores`.
AtUpdateScreen(stores) ==
    /\ pc = "update_screen"
    /\ i = 0
    /\ id = U32(0, 0)
    /\ field_buffers \in stores
    /\ idx = [t \in Togglers |-> 0]
    /\ running = TRUE
    /\ sock = "bound"
    /\ sigdisp = [s \in Signals |-> "cleanup_and_exit"]
    /\ exit_status = "none"
    /\ exit_by = "none"
    /\ failed_call = ""
    /\ path_exists = TRUE
    /\ queue = <<>>
    /\ sent = 0
    /\ published = <<>>
    /\ pubs = 0
    /\ log = <<>>
    /\ dgram = <<>>
    /\ received = 0
    /\ child_status = 0
    /\ prev_meta_log = <<>>
    /\ client = ClientOff

InitRender == AtUpdateScreen(RenderStores)

SpecRender == InitRender /\ [][UpdateScreen]_vars

(* --------------------------- dwmstatus-client -------------------------- *)

\* socket(AF_UNIX, SOCK_DGRAM, 0) in get_named_socket()
ServerSockType == "SOCK_DGRAM"

\* socket(AF_UNIX, SOCK_STREAM, 0) in main() of the client
ClientSockType == "SOCK_STREAM"

DecimalDigits == <<"0", "1", "2", "3", "4", "5", "6", "7", "8", "9">>

IsDigit(c) == \E d \in 1 .. Len(DecimalDigits) : DecimalDigits[d] = c

DigitValue(c) == (CHOOSE d \in 1 .. Len(DecimalDigits) : DecimalDigits[d] = c) - 1

\* isspace()
IsSpace(c) == c \in {" ", "\t", "\n"}

\* An unsigned long is a sequence of 16-bit limbs, the lowest first.
\* v * 10 + d, with one limb more than v: the last limb is what did not fit.
RECURSIVE Times10Plus(_, _)
Times10Plus(v, d) ==
    IF v = <<>> THEN <<d>>
    ELSE LET t == Head(v) * 10 + d
         IN  <<t % Half>> \o Times10Plus(Tail(v), t \div Half)

\* -v modulo 2^(16 * Len(v)): the complement of each limb, plus carry
RECURSIVE Negated(_, _)
Negated(v, carry) ==
    IF v = <<>> THEN <<>>
    ELSE LET t == (Half - 1 - Head(v)) + carry
         IN  <<t % Half>> \o Negated(Tail(v), t \div Half)

RECURSIVE SkipSpace(_)
SkipSpace(str) ==
    IF str # <<>> /\ IsSpace(Head(str)) THEN SkipSpace(Tail(str)) ELSE str

\* strtoul(): the digits at the front of str are taken into v; overflow
\* says whether the value has left the range of unsigned long.
RECURSIVE TakeDigits(_, _, _, _)
TakeDigits(str, v, overflow, any) ==
    IF str # <<>> /\ IsDigit(Head(str))
    THEN LET t == Times10Plus(v, DigitValue(Head(str)))
         IN  TakeDigits(Tail(str), SubSeq(t, 1, Len(v)),
                        overflow \/ t[Len(t)] # 0, TRUE)
    ELSE [value |-> v, overflow |-> overflow, any |-> any]

\* std::stoul(str) where unsigned long has w limbs: strtoul(str, &end, 10)
\* skips white space, takes a sign and the digits that follow and stops at
\* the first other character; no digit at all throws invalid_argument, a
\* value out of the range of unsigned long throws out_of_range, and what
\* follows the digits is not looked at.
Stoul(str, w) ==
    LET body == SkipSpace(str)
        signed == body # <<>> /\ Head(body) \in {"+", "-"}
        negative == body # <<>> /\ Head(body) = "-"
        r == TakeDigits(IF signed THEN Tail(body) ELSE body,
                        [k \in 1 .. w |-> 0], FALSE, FALSE)
    IN  CASE ~r.any -> [throws |-> "invalid_argument", value |-> r.value]
          [] r.overflow -> [throws |-> "out_of_range", value |-> r.value]
          [] OTHER -> [throws |-> "",
                       value |-> IF negative THEN Negated(r.value, 1) ELSE r.value]

\* num = std::stoul(argv[1]): the unsigned long converted to std::uint32_t,
\* its low 32 bits
ToUint32(v) == U32(v[2], v[1])

\* The arguments the modelled runs of the client are given: ids in range,
\* 2^32 - 1, 2^32, 2^64, and texts that are not decimal numbers.
ClientArgs ==
    { <<"0">>, <<"3">>, <<"6">>,
      <<"4", "2", "9", "4", "9", "6", "7", "2", "9", "5">>,
      <<"4", "2", "9", "4", "9", "6", "7", "2", "9", "6">>,
      <<"1", "8", "4", "4", "6", "7", "4", "4", "0", "7", "3", "7", "0", "9",
        "5", "5", "1", "6", "1", "6">>,
      <<"a", "b", "c">>, <<"7", "x">>, <<"-", "1">>, <<" ", "5">>, <<>> }

\* argv[1 ..] of the modelled runs: one argument, none, or two.
ClientArgvs == {<<a>> : a \in ClientArgs} \cup { <<>>, << <<"3">>, <<"4">> >> }

\* The widths of unsigned long, in 16-bit limbs: 32 and 64 bits.
ULongWidths == {2, 4}

\* The server has gone through startup with every command stubbed and
\* waits in read().
ServerServing ==
    /\ pc = "run_loop"
    /\ i = 0
    /\ id = U32(0, 0)
    /\ field_buffers =
          [s \in Slots |->
              CASE s = R_LANG -> ToggleText("toggle_lang", 0)
                [] s = R_GOV -> ToggleText("toggle_cpu_gov", 0)
                [] s = R_MIC -> ToggleText("toggle_mic", 0)
                [] OTHER -> SlotName(s)]
    /\ idx = [t \in Togglers |-> 0]
    /\ running = TRUE
    /\ sock = "bound"
    /\ sigdisp = [s \in Signals |-> "cleanup_and_exit"]
    /\ exit_status = "none"
    /\ exit_by = "none"
    /\ failed_call = ""
    /\ path_exists = TRUE
    /\ queue = <<>>
    /\ sent = 0
    /\ published = ScreenText(field_buffers)
    /\ pubs = 1
    /\ log = [k \in 1 .. StartupCount |->
                LET u == StartupUpdate(k - 1)
                IN  IF u.type = "Shell"
                    THEN [what |-> u.command, slot |-> u.field_buffer,
                          out |-> StubOutput(u.command)]
                    ELSE [what |-> u.fptr, slot |-> u.field_buffer, out |-> <<>>]]
    /\ dgram = <<>>
    /\ received = 0
    /\ child_status = 0
    /\ prev_meta_log = <<>>

\* The client is started, with the server either serving (its datagram
\* socket is what is bound to SOCKET_NAME) or not started (nothing is
\* bound there, or the listening stream socket of some other program is).
InitClient ==
    /\ ServerInit \/ ServerServing
    /\ \E av \in ClientArgvs, w \in ULongWidths,
          p \in IF sock = "bound" THEN {ServerSockType} ELSE {"none", ClientSockType} :
          client = [pc |-> "start", argv |-> av, ulong |-> w, peer |-> p,
                    num |-> U32(0, 0), written |-> <<>>, status |-> "none", by |-> ""]

\* exit(EXIT_FAILURE), abort() or the return from main()
ClientEnds(status, by) ==
    client' = [client EXCEPT !.pc = "exited", !.status = status, !.by = by]

\* main() of the client: the check of argc, then socket()
ClientSocket ==
    /\ client.pc = "start"
    /\ IF Len(client.argv) # 1
       THEN ClientEnds("failure", "usage")
       ELSE \/ ClientEnds("failure", "socket")
            \/ client' = [client EXCEPT !.pc = "connect"]
    /\ UNCHANGED server_vars

\* connect(sockfd, SOCKET_NAME): it succeeds only on a listening socket of
\* the type of sockfd; on a socket of another type it fails with
\* EPROTOTYPE, on no socket with ENOENT.
Connects(peer) == peer = ClientSockType

\* main() of the client: connect()
ClientConnect ==
    /\ client.pc = "connect"
    /\ IF Connects(client.peer)
       THEN client' = [client EXCEPT !.pc = "parse"]
       ELSE ClientEnds("failure", "connect")
    /\ UNCHANGED server_vars

\* main() of the client: num = std::stoul(argv[1]); only
\* std::invalid_argument is caught, std::out_of_range ends the process in
\* std::terminate(), that is abort()
ClientParse ==
    /\ client.pc = "parse"
    /\ LET r == Stoul(client.argv[1], client.ulong)
       IN  CASE r.throws = "invalid_argument" -> ClientEnds("failure", "stoul")
             [] r.throws = "out_of_range" -> ClientEnds("abort", "std::terminate")
             [] OTHER -> client' = [client EXCEPT !.pc = "write", !.num = ToUint32(r.value)]
    /\ UNCHANGED server_vars

\* main() of the client: write(sockfd, &num, sizeof(num)), close() and the
\* end of main()
ClientWrite ==
    /\ client.pc = "write"
    /\ \/ ClientEnds("failure", "write")
       \/ client' = [client EXCEPT !.pc = "exited", !.status = "success", !.by = "main",
                                   !.written = Encode(client.num)]
    /\ UNCHANGED server_vars

NextClient ==
    \/ ClientSocket
    \/ ClientConnect
    \/ ClientParse
    \/ ClientWrite

SpecClient == InitClient /\ [][NextClient]_vars

(* ------------------ read_cmd_output() at the capacity ------------------ *)

\* What the child writes in the runs that probe the capture: nothing, a
\* lone newline, and outputs of 255 and more bytes with a newline at byte
\* 255, at byte 256, or nowhere.
BoundaryOutputs ==
    { <<>>, <<"\n">>,
      Rep("x", BUFFER_MAX_SIZE),
      Rep("x", BUFFER_MAX_SIZE - 1) \o <<"\n">>,
      Rep("x", BUFFER_MAX_SIZE + 1),
      Rep("x", BUFFER_MAX_SIZE) \o <<"\n">>,
      Rep("x", BUFFER_MAX_SIZE - 1) \o <<"\n", "y", "\n">>,
      Rep("x", BUFFER_MAX_SIZE + 45) }

\* read_cmd_output(cmd, &field_buffers[s]) of a child that writes `out` and
\* whose system calls all succeed, before update_screen() is called
ReadCmdOutput(s, out) ==
    /\ pc = "update_screen"
    /\ Len(log) < MaxCaptures
    /\ field_buffers' = [field_buffers EXCEPT ![s] = Capture(out)]
    /\ log' = Append(log, [what |-> "read_cmd_output", slot |-> s, out |-> out])
    /\ UNCHANGED << pc, i, id, idx, running, sock, sigdisp, exit_status, exit_by,
                    failed_call, path_exists, queue, sent, published, pubs, dgram,
                    received, child_status, prev_meta_log, client >>

\* The cells the probing runs capture into: those of the two commands
\* whose output varies in the runs of the server.
CaptureSlots ==
    {shell_updates[k].field_buffer : k \in {n \in DOMAIN shell_updates :
                                              shell_updates[n].command \in VarCommands}}

\* The field stores the probing runs start with: every cell empty, and
\* every cell full.
CaptureStores ==
    { [s \in Slots |-> <<>>], [s \in Slots |-> Rep("z", BUFFER_MAX_SIZE)] }

InitCapture == AtUpdateScreen(CaptureStores)

NextCapture ==
    \/ \E s \in CaptureSlots, out \in BoundaryOutputs : ReadCmdOutput(s, out)
    \/ UpdateScreen

SpecCapture == InitCapture /\ [][NextCapture]_vars

(* ------------------------------ claims -------------------------------- *)

\* The datagram last read holds the id n in its first SizeofId bytes.
ReqIs(n) ==
    /\ received > 0
    /\ Len(dgram) >= SizeofId
    /\ SubSeq(dgram, 1, SizeofId) = Encode(n)

\* The slots the update routed from id k writes, in order.
RoutedSlots(k) ==
    CASE k = 1 -> <<R_VOL>>
      [] k = 2 -> <<R_WTH>>
      [] k = 3 -> <<R_LANG>>
      [] k = 4 -> <<R_GOV>>
      [] k = 5 -> <<R_MIC>>
      [] k = 6 -> <<R_TIME, R_LOAD, R_TEMP, R_MEM>>

\* The cell holds what was captured of the output: the output, less one
\* newline at its end.
Holds(cell, out) == cell = out \/ cell \o <<"\n">> = out

\* The step is one of the server's own, neither a signal nor an arrival.
ServerStep ==
    /\ sent' = sent
    /\ exit_by' \notin {"cleanup_and_exit", "SIG_DFL"}

\* C1: for a request with an id in 1..6 there is never more than one
\* publication, the publication comes only when every update routed from
\* the id has run (all four of id 6), and when handle_received() has
\* returned there has been exactly one.
C1_OnePublicationAfterUpdate ==
    \A k \in 1 .. 6 :
        ReqIs(U32(0, k)) =>
            /\ pubs <= 1
            /\ pubs = 1 => LogSlots = RoutedSlots(k)
            /\ pc = "run_loop" => pubs = 1

\* C1: the request with id 6 has been handled and published.
C1_Witness ==
    /\ ReqIs(U32(0, 6))
    /\ pc = "run_loop"
    /\ pubs = 1
    /\ LogSlots = RoutedSlots(6)

\* C2: handling the terminator, id 0, publishes nothing.
C2_TerminatorPublishesNothing == ReqIs(U32(0, 0)) => pubs = 0

\* C3: once the terminator has run, no datagram is read and no update is
\* dispatched; the step the server takes at the loop check ends the
\* process, and however the process ends then, the socket is closed, the
\* socket path is gone and the status is success.
C3_TerminatorStopsServer ==
    [][ ~running =>
          /\ ReqIs(U32(0, 0))
          /\ received' = received
          /\ log' = log
          /\ (pc = "run_loop" /\ ServerStep) => pc' = "exited"
          /\ pc' = "exited" =>
                (exit_status' = "success" /\ ~path_exists' /\ sock' = "closed") ]_vars

\* C3: the process ended by returning from main() with a datagram left
\* unread behind id 0.
C3_Witness ==
    /\ pc = "exited"
    /\ exit_by = "main"
    /\ ~running
    /\ sent > received

\* The id is outside 0..6.
OutOfRange(n) == n[1] > 0 \/ n[2] >= 7

\* C4: handle_received() of an id outside 0..6 changes no cell and no
\* toggler index, publishes nothing, leaves running true and returns to
\* the loop, where the next datagram is read.
C4_OutOfRangeIgnored ==
    [][ (pc = "handle_received" /\ OutOfRange(id) /\ ServerStep) =>
          /\ field_buffers' = field_buffers
          /\ idx' = idx
          /\ pubs' = pubs
          /\ published' = published
          /\ log' = log
          /\ running /\ running'
          /\ pc' = "run_loop"
          /\ exit_status' = "none" ]_vars

\* C4: the id 2^32 - 1 has been rejected and the server is back at the
\* loop.
C4_Witness ==
    /\ ReqIs(U32(Half - 1, Half - 1))
    /\ pc = "run_loop"
    /\ running
    /\ pubs = 0

\* C5: reading a datagram of fewer than 4 bytes dispatches nothing, changes
\* no cell and publishes nothing, and the server is back at the loop; a
\* datagram of 4 bytes or more goes to handle_received() with the id that
\* its first 4 bytes encode.
C5_ShortIgnoredLongCut ==
    [][ /\ received' = received + 1 =>
            IF Len(dgram') < SizeofId
            THEN /\ pc' = "run_loop"
                 /\ field_buffers' = field_buffers
                 /\ idx' = idx
                 /\ published' = published
                 /\ running' = running
            ELSE /\ pc' = "handle_received"
                 /\ \E n \in SentIds :
                       /\ SubSeq(dgram', 1, SizeofId) = Encode(n)
                       /\ id' = n
        /\ (received' > 0 /\ Len(dgram') < SizeofId) =>
              (pubs' = 0 /\ log' = <<>> /\ pc' \in {"run_loop", "exited"}) ]_vars

\* C5: a datagram of 5 bytes has been handled as id 3, and published.
C5_Witness ==
    /\ received > 0
    /\ Len(dgram) > SizeofId
    /\ pc = "run_loop"
    /\ pubs = 1
    /\ LogSlots = RoutedSlots(3)

\* C6: whenever a signal that is not ignored ends the process after the
\* socket was bound, the socket path is gone and the status is success.
C6_SignalCleansUp ==
    (exit_by \in {"cleanup_and_exit", "SIG_DFL"} /\ sock # "none") =>
        (exit_status = "success" /\ ~path_exists)

\* C7: whenever the process ends with a failure after it read a datagram
\* (the socket read failed, or a system call of a shell update did), the
\* socket path is gone.
C7_FatalErrorUnlinks ==
    (exit_status = "failure" /\ received > 0) => ~path_exists

\* C8: the process never ends with a failure unless a system call failed;
\* and when a shell request (id 1 or 2) has been handled whose child ended
\* with a non-zero status or wrote nothing, the cell holds what was
\* captured, the request was published and running is true.
C8_ChildFailureNotFatal ==
    /\ exit_status = "failure" => failed_call # ""
    /\ \A k \in 1 .. 2 :
          ( /\ ReqIs(U32(0, k))
            /\ pc = "run_loop"
            /\ Len(log) = 1
            /\ (child_status # 0 \/ log[1].out = <<>>) ) =>
              /\ Holds(field_buffers[RoutedSlots(k)[1]], log[1].out)
              /\ pubs = 1
              /\ running

\* C8: the child of a volume update (id 1) wrote nothing and ended with
\* status 1, and the request was published.
C8_Witness ==
    /\ ReqIs(U32(0, 1))
    /\ pc = "run_loop"
    /\ Len(log) = 1
    /\ log[1].out = <<>>
    /\ child_status = 1
    /\ field_buffers[R_VOL] = <<>>
    /\ pubs = 1
    /\ running

\* The slots the startup pass writes, in order.
StartupSlots ==
    <<R_TIME, R_LOAD, R_TEMP, R_VOL, R_MEM, R_DATE, R_WTH, R_LANG, R_GOV, R_MIC>>

\* C9: before the startup pass is over no datagram has been read and
\* nothing is published; the pass runs the seven shell updates and then the
\* three builtin updates, each once and in that order, then publishes
\* once; after it each shell cell holds what its command wrote, LANG is
\* "US", GOV is "*", MIC is "0" and every toggler index is 0.
C9_StartupPass ==
    /\ (received = 0 /\ pc # "run_loop" /\ pc # "exited") => pubs = 0
    /\ pc \in {"start", "init_signals", "init_x", "init_statusbar"} => received = 0
    /\ pc = "init_statusbar" => LogSlots = SubSeq(StartupSlots, 1, i)
    /\ (received = 0 /\ pc \in {"update_screen", "run_loop"}) => LogSlots = StartupSlots
    /\ (received = 0 /\ pc = "run_loop") =>
          /\ pubs = 1
          /\ \A k \in 1 .. 7 : Holds(field_buffers[StartupSlots[k]], log[k].out)
          /\ field_buffers[R_LANG] = <<"U", "S">>
          /\ field_buffers[R_GOV] = <<"*">>
          /\ field_buffers[R_MIC] = <<"0">>
          /\ \A t \in DOMAIN idx : idx[t] = 0

\* C9: the startup pass is over, a datagram is waiting and none was read.
C9_Witness ==
    /\ received = 0
    /\ pc = "run_loop"
    /\ pubs = 1
    /\ queue # <<>>
    /\ LogSlots = StartupSlots

\* Every command of the startup pass wrote its slot name and a newline.
StartupStubbed ==
    /\ received = 0
    /\ pc = "run_loop"
    /\ Len(log) = Len(StartupSlots)
    /\ \A k \in 1 .. 7 : log[k].out = SlotName(StartupSlots[k]) \o <<"\n">>

\* C10, as claimed: with every command stubbed the first line published is
\* [TIME |LOAD |TEMP |VOL |MEM |US |* |0 |WTH |DATE].
C10_FirstLineAsClaimed ==
    StartupStubbed =>
        published =
            << "[", "T", "I", "M", "E", " ", "|", "L", "O", "A", "D", " ", "|",
               "T", "E", "M", "P", " ", "|", "V", "O", "L", " ", "|",
               "M", "E", "M", " ", "|", "U", "S", " ", "|", "*", " ", "|",
               "0", " ", "|", "W", "T", "H", " ", "|", "D", "A", "T", "E", "]" >>

\* C10, amended: with every command stubbed the first line published is
\* [TIME |LOAD |TEMP |VOL |0 |MEM |* |US |WTH |DATE], the fields in the
\* order of the slots: MIC is the fifth, MEM the sixth, GOV the seventh
\* and LANG the eighth.
C10_FirstLine ==
    StartupStubbed =>
        published =
            << "[", "T", "I", "M", "E", " ", "|", "L", "O", "A", "D", " ", "|",
               "T", "E", "M", "P", " ", "|", "V", "O", "L", " ", "|",
               "0", " ", "|", "M", "E", "M", " ", "|", "*", " ", "|",
               "U", "S", " ", "|", "W", "T", "H", " ", "|", "D", "A", "T", "E", "]" >>

\* C10: the startup pass is over and every command wrote its slot name.
C10_Witness ==
    /\ StartupStubbed
    /\ pubs = 1
    /\ Len(published) > 0

\* The fields, F0 first, joined by " |".
RECURSIVE JoinFields(_, _)
JoinFields(fb, k) ==
    IF k = 0 THEN fb[0] ELSE JoinFields(fb, k - 1) \o <<" ", "|">> \o fb[k]

C12_CellsShortAndOneLine ==
    \A s \in Slots :
        /\ Len(field_buffers[s]) <= BUFFER_MAX_SIZE
        /\ \A k \in 1 .. Len(field_buffers[s]) : field_buffers[s][k] # "\n"

\* The toggler index and the view of the cell of builtin update u.
TogglerState(u) == [idx |-> idx[u.fptr], cell |-> field_buffers[u.field_buffer]]

\* The toggler index and the view of the cell of u after two invocations
\* of its handler in a row.
ToggledTwice(u) ==
    LET once == Toggle(u.fptr, idx[u.fptr], field_buffers[u.field_buffer])
    IN  Toggle(u.fptr, once.idx, once.cell)

\* C13, as claimed: from every reachable state, the one before the startup
\* pass included, two invocations in a row of a builtin handler bring its
\* cell and its index back to what they were.
C13_TwiceIsIdentityAlways ==
    \A k \in DOMAIN builtin_updates :
        ToggledTwice(builtin_updates[k]) = TogglerState(builtin_updates[k])

\* C13, amended: from every reachable state in which the handler has run
\* (its cell is not empty any more), two invocations in a row bring its
\* cell and its index back to what they were.
C13_TwiceIsIdentity ==
    \A k \in DOMAIN builtin_updates :
        field_buffers[builtin_updates[k].field_buffer] # <<>> =>
            ToggledTwice(builtin_updates[k]) = TogglerState(builtin_updates[k])

\* C13: toggle_lang() has run at startup and twice since, by two requests
\* with id 3, and LANG is "US" again with index 0.
C13_Witness ==
    /\ ReqIs(U32(0, 3))
    /\ received = 2
    /\ pc = "run_loop"
    /\ pubs = 1
    /\ idx["toggle_lang"] = 0
    /\ field_buffers[R_LANG] = <<"U", "S">>

\* The arguments that are decimal numbers in [0, 2^32), with their values.
DecimalIds ==
    { [text |-> <<"0">>, value |-> U32(0, 0)],
      [text |-> <<"3">>, value |-> U32(0, 3)],
      [text |-> <<"6">>, value |-> U32(0, 6)],
      [text |-> <<"4", "2", "9", "4", "9", "6", "7", "2", "9", "5">>,
       value |-> U32(Half - 1, Half - 1)] }

\* C14: a client run with id k while the server is serving ends with
\* exactly one request of 4 bytes delivered, which the server decodes as
\* k.
C14_ClientDelivers ==
    \A a \in DecimalIds :
        ( /\ client.pc = "exited"
          /\ client.argv = <<a.text>>
          /\ client.peer = ServerSockType
          /\ client.by # "socket" ) =>
            /\ client.status = "success"
            /\ Len(client.written) = SizeofId
            /\ Decode(client.written) = a.value

\* C15: the client sends an id only when its argument is a decimal number
\* in [0, 2^32), and then the id of that value; for any other argument it
\* sends nothing and ends with a status that is not success.
C15_SendsOnlyParsedIds ==
    client.pc = "exited" =>
        /\ client.written # <<>> =>
              \E a \in DecimalIds :
                  client.argv = <<a.text>> /\ client.written = Encode(a.value)
        /\ (\A a \in DecimalIds : client.argv # <<a.text>>) =>
              (client.written = <<>> /\ client.status # "success")

\* C16: a request with id 6 runs the updates of TIME, LOAD, TEMP and MEM,
\* in that order and each once, before it publishes; no step of it changes
\* VOL, MIC, GOV, LANG, WTH or DATE or a toggler index; and when it
\* follows another request with id 6 whose commands wrote the same
\* outputs, the line it publishes is the line published before.
C16_MetaUpdateFrame ==
    /\ [](ReqIs(U32(0, 6)) =>
            /\ Len(log) <= 4
            /\ LogSlots = SubSeq(<<R_TIME, R_LOAD, R_TEMP, R_MEM>>, 1, Len(log))
            /\ pubs = 1 => Len(log) = 4)
    /\ [][ (ReqIs(U32(0, 6)) /\ ServerStep /\ pc' # "exited") =>
             /\ \A s \in {R_VOL, R_MIC, R_GOV, R_LANG, R_WTH, R_DATE} :
                   field_buffers'[s] = field_buffers[s]
             /\ idx' = idx
             /\ (pc = "update_screen" /\ prev_meta_log = log) =>
                   published' = published ]_vars

\* C16: two requests with id 6 in a row, the commands of the second
\* writing what they wrote for the first, have both been published.
C16_Witness ==
    /\ ReqIs(U32(0, 6))
    /\ received = 2
    /\ pc = "run_loop"
    /\ pubs = 1
    /\ Len(log) = 4
    /\ prev_meta_log = log

\* The descriptors of the shell and builtin tables.
CellUpdates ==
    {shell_updates[k] : k \in DOMAIN shell_updates}
        \cup {builtin_updates[k] : k \in DOMAIN builtin_updates}

\* C17: no step of a request with id 1 changes a cell other than VOL, of
\* one with id 2 a cell other than WTH, and neither changes a toggler
\* index; a request with id 3, 4 or 5 changes no cell other than LANG,
\* GOV or MIC and no index other than that of its own handler; and every
\* slot is the target of exactly one descriptor of the shell and builtin
\* tables.
C17_SingleFieldFrame ==
    /\ [](\A s \in Slots :
            Cardinality({u \in CellUpdates : u.field_buffer = s}) = 1)
    /\ [][ \A k \in 1 .. 5 :
             (ReqIs(U32(0, k)) /\ ServerStep /\ pc' # "exited") =>
                 /\ \A s \in Slots \ {RoutedSlots(k)[1]} :
                       field_buffers'[s] = field_buffers[s]
                 /\ \A t \in DOMAIN idx :
                       idx'[t] # idx[t] =>
                           /\ k \in 3 .. 5
                           /\ t = builtin_updates[k - 3].fptr ]_vars

\* C17: a request with id 5 has changed MIC and the index of toggle_mic()
\* and has been published, the other nine cells as the startup pass left
\* them.
C17_Witness ==
    /\ ReqIs(U32(0, 5))
    /\ received = 1
    /\ pc = "run_loop"
    /\ pubs = 1
    /\ field_buffers[R_MIC] = <<"1">>
    /\ idx["toggle_mic"] = 1
    /\ idx["toggle_lang"] = 0
    /\ field_buffers[R_LANG] = <<"U", "S">>
    /\ field_buffers[R_GOV] = <<"*">>

\* The output of the capture last made and the cell it was made into.
LastCapture ==
    [out |-> log[Len(log)].out, cell |-> field_buffers[log[Len(log)].slot]]

\* C18, as claimed: an output of 255 bytes without a newline is stored
\* whole; of an output of 256 bytes or more the first 255 bytes are stored,
\* whatever they are; a lone newline leaves length 0.
C18_CaptureAtCapacityAsClaimed ==
    log # <<>> =>
        LET out == LastCapture.out
            cell == LastCapture.cell
        IN  /\ (Len(out) = BUFFER_MAX_SIZE /\ \A k \in 1 .. Len(out) : out[k] # "\n") =>
                  cell = out
            /\ Len(out) > BUFFER_MAX_SIZE => cell = SubSeq(out, 1, BUFFER_MAX_SIZE)
            /\ out = <<"\n">> => Len(cell) = 0

\* C18, amended: an output of 255 bytes without a newline is stored whole;
\* of an output of 256 bytes or more the first 255 bytes are stored, less
\* the 255th if it is a newline (the length is then 254); a lone newline
\* leaves length 0.
C18_CaptureAtCapacity ==
    log # <<>> =>
        LET out == LastCapture.out
            cell == LastCapture.cell
        IN  /\ (Len(out) = BUFFER_MAX_SIZE /\ \A k \in 1 .. Len(out) : out[k] # "\n") =>
                  cell = out
            /\ Len(out) > BUFFER_MAX_SIZE =>
                  cell = IF out[BUFFER_MAX_SIZE] = "\n"
                         THEN SubSeq(out, 1, BUFFER_MAX_SIZE - 1)
                         ELSE SubSeq(out, 1, BUFFER_MAX_SIZE)
            /\ out = <<"\n">> => Len(cell) = 0

\* C18: an output of more than 255 bytes whose 255th byte is a newline has
\* been captured, after another capture, and the cell holds 254 bytes.
C18_Witness ==
    /\ Len(log) = MaxCaptures
    /\ Len(LastCapture.out) > BUFFER_MAX_SIZE
    /\ LastCapture.out[BUFFER_MAX_SIZE] = "\n"
    /\ Len(LastCapture.cell) = BUFFER_MAX_SIZE - 1

\* The datagram last read holds an id in 0..6.
ValidRequest == \E k \in 0 .. 6 : ReqIs(U32(0, k))

C20_WritesStayInside ==
    /\ Len(published) <= ROOT_BUFFER_MAX_SIZE
    /\ (pubs > 0 /\ Len(StatusFmt([k \in 1 .. R_SIZE |-> field_buffers[k - 1]]))
                       >= ROOT_BUFFER_MAX_SIZE) =>
           Len(published) = ROOT_BUFFER_MAX_SIZE
    /\ \A s \in Slots : Len(field_buffers[s]) <= BUFFER_MAX_SIZE

\* C20: with all ten cells full, the last two captures of outputs of more
\* than 255 bytes, the line has been cut at ROOT_BUFFER_MAX_SIZE bytes.
C20_Witness ==
    /\ pubs = 1
    /\ \A s \in Slots : Len(field_buffers[s]) = BUFFER_MAX_SIZE
    /\ Len(log) = MaxCaptures
    /\ \A k \in 1 .. Len(log) : Len(log[k].out) > BUFFER_MAX_SIZE
    /\ Len(published) = ROOT_BUFFER_MAX_SIZE

====
